---- MODULE Spec2Model ----
(***************************************************************************)
(* hid2tcp: a bridge between one USB HID device and several TCP clients.   *)
(* Two threads, UsbInterface.run (the device reader) and Hid2Tcp.run (the  *)
(* relay loop), share one OS pipe.  The environment is the device and the  *)
(* TCP clients.                                                            *)
(***************************************************************************)
EXTENDS Integers, Sequences, FiniteSets, TLC

\* ------------------------------------------------------------------ bounds
\* connections the clients open
MaxConns == 2
\* packets the device yields
MaxFrames == 2
\* client events: connects, messages, closes and resets
MaxEnv == 3

\* --------------------------------------------------------- configuration
\* int(config['vendor_id'], 16) and int(config['product_id'], 16)
VendorId == 4660
ProductId == 22136

Conns == 1..MaxConns

\* ------------------------------------------------------------ input sets
Good == <<18, 52, 86, 120>>
Zero4 == <<0, 0, 0, 0>>
Long5 == <<18, 52, 86, 120, 0>>

Frame0 == << >>
Frame3 == <<170, 187, 204>>
Frame255 == [k \in 1..255 |-> k]

\* what a closed pipe may still hold
FramingPipes == {<< >>, <<3>>, <<3, 170>>, <<3, 170, 187, 204>>}

\* what the clients send and what the device yields, per specification
SessionInputs == [msgs |-> {Good, Zero4, Long5}, frames |-> {Frame3}]
ChannelInputs == [msgs |-> {Good}, frames |-> {Frame0, Frame3, Frame255}]
FairInputs == [msgs |-> {Good, Zero4}, frames |-> {Frame3}]

VARIABLES
    inputs,      \* the input sets of this run, [msgs, frames], and serving:
                 \* the sessions established before it starts
    upc,         \* UsbInterface.run: "read" | "retry" | "wlen" | "wdata" ("stopped": it has ended)
    packet,      \* UsbInterface.run: the packet just read
    produced,    \* history: the packets the device yielded, in order
    pipe,        \* the bytes in the OS pipe (pipeout -> pipein)
    eof,         \* the pipe's write end is closed: a read of the empty pipe returns b''
    pc,          \* Hid2Tcp.run: "select" | "accept" | "pipein" | "pipein_data" | "clients",
                 \* or the call whose exception ended the loop: "recv raised" | "send raised",
                 \* or "size raised" (handle_pipein's raise)
    ready,       \* ready_to_read of the current iteration
    idx,         \* the client loop's position (1-based; 0 outside the loop)
    data_size,   \* handle_pipein: the length byte just read
    clients,     \* self.clients: the accepted connections, in accept order
    authorized,  \* self.authorized: one flag per entry of clients
    backlog,     \* connections established and not yet accepted
    nconn,       \* connections opened so far
    inbox,       \* per connection: the messages the client sent and the server has not read
    net,         \* per connection: "open" | "fin" (peer closed) | "rst" (reset)
    srvClosed,   \* per connection: the server called close() on it
    sent,        \* history, per connection: the arguments of every send() call on it
    recvLog,     \* history, per connection: the non-empty results of recv() on it
    devWrites,   \* history: the endpoint_out.write calls, [conn, data, ok]
    fanned,      \* history: the payloads handle_pipein read from the pipe
    authAt,      \* history, per connection: Len(fanned) when it was authorized, -1 before
    skipped,     \* history: the ready connections the last break of the client loop left unread
    nenv         \* the client events so far

vars == <<inputs, eof, upc, packet, produced, pipe, pc, ready, idx, data_size, clients,
          authorized, backlog, nconn, inbox, net, srvClosed, sent, recvLog,
          devWrites, fanned, authAt, skipped, nenv>>

readerVars == <<upc, packet, produced>>
relayVars == <<pc, ready, idx, data_size>>
sessionVars == <<clients, authorized>>
netVars == <<backlog, nconn, inbox, net, srvClosed, nenv>>
logVars == <<sent, recvLog, devWrites, fanned, authAt, skipped>>

\* --------------------------------------------------------------- helpers
Range(s) == {s[k] : k \in 1..Len(s)}

Min(S) == CHOOSE x \in S : \A y \in S : x <= y

Take(s, n) == SubSeq(s, 1, n)

Drop(s, n) == SubSeq(s, n + 1, Len(s))

DelAt(s, i) == SubSeq(s, 1, i - 1) \o SubSeq(s, i + 1, Len(s))

Running == pc \in {"select", "accept", "pipein", "pipein_data", "clients"}

NoneReady == [pipein |-> FALSE, server |-> FALSE, clients |-> {}]

\* an exception nothing catches ends run()
Raised(exc) == [pc |-> exc, idx |-> 0, ready |-> NoneReady]

\* select.select(readers, [], [], TIMEOUT/1000): the readers that are readable
ReadyNow ==
    [pipein |-> pipe # << >> \/ eof,
     server |-> backlog # << >>,
     clients |-> {c \in Range(clients) : inbox[c] # << >> \/ net[c] # "open"}]

\* faulty variant: the length is reduced modulo 255, not kept as a byte
LengthByte_Mod255(p) == Len(p) % 255

\* bytes([len(packet)])
LengthByte(p) == Len(p)

\* the except clauses of UsbInterface.run: both continue the loop
AfterReadFault == "read"

\* faulty variant: the length is not checked
HandshakeOk_AnyLength(data) ==
    /\ Len(data) >= 4
    /\ data[1] * 256 + data[2] = VendorId
    /\ data[3] * 256 + data[4] = ProductId

\* (data[0]<<8)|data[1] == vendor_id and (data[2]<<8)|data[3] == product_id
HandshakeOk(data) ==
    /\ Len(data) = 4
    /\ data[1] * 256 + data[2] = VendorId
    /\ data[3] * 256 + data[4] = ProductId

\* faulty variant: the entries after the i-th are deleted with it
RemoveSession_Truncate(cl, au, i) == [clients |-> Take(cl, i - 1), authorized |-> Take(au, i - 1)]

\* faulty variant: the flag deleted is the last one, not the i-th
RemoveSession_LastFlag(cl, au, i) ==
    [clients |-> DelAt(cl, i), authorized |-> DelAt(au, Len(au))]

\* del self.clients[i]; del self.authorized[i]
RemoveSession(cl, au, i) == [clients |-> DelAt(cl, i), authorized |-> DelAt(au, i)]

\* faulty variant: the data is added to the previous write instead of written on its own
UsbSend_Coalesce(w, c, data, ok) ==
    IF w = << >> THEN Append(w, [conn |-> c, data |-> data, ok |-> ok])
    ELSE [w EXCEPT ![Len(w)].data = @ \o data]

\* usb_interface.send(data): one endpoint_out.write(data) call
UsbSend(w, c, data, ok) == Append(w, [conn |-> c, data |-> data, ok |-> ok])

\* the client loop of run(): the next ready client at position >= from
ClientPhase(cl, rd, from) ==
    LET J == {j \in from..Len(cl) : cl[j] \in rd.clients}
    IN  IF J = {} THEN [pc |-> "select", idx |-> 0, ready |-> NoneReady]
        ELSE [pc |-> "clients", idx |-> Min(J), ready |-> rd]

\* faulty variant: the USBError of endpoint_out.write is not caught
AfterUsbSend_Uncaught(ok, cont) == IF ok THEN cont ELSE Raised("write raised")

\* usb_interface.send: a USBError of endpoint_out.write is caught and logged,
\* so the caller goes on as after a successful write
AfterUsbSend(ok, cont) == cont

\* faulty variant: the read does not wait for data
CanRead_NoWait(p, n, e) == TRUE

\* os.read(self.pipein, n) returns: n = 0, or bytes are there, or the write end
\* is closed; otherwise it blocks
CanRead(p, n, e) == n = 0 \/ p # << >> \/ e

\* faulty variant: the bytes read stay in the pipe
Consume_Keep(p, n) == p

\* os.read takes the bytes it returns out of the pipe
Consume(p, n) == Drop(p, n)

\* faulty variant: the new session is put in front of the others
NewSession_Front(cl, au, c) == [clients |-> <<c>> \o cl, authorized |-> <<FALSE>> \o au]

\* self.clients.append(clientsocket); self.authorized.append(False)
NewSession(cl, au, c) == [clients |-> Append(cl, c), authorized |-> Append(au, FALSE)]

\* faulty variant: no break, the loop goes on over the shortened lists
AfterRemove_NoBreak(cl, rd, i) == ClientPhase(cl, rd, i)

\* the break of run(): the for loop ends and the next iteration starts;
\* cl is self.clients after the del, i the position deleted
AfterRemove(cl, rd, i) == [pc |-> "select", idx |-> 0, ready |-> NoneReady]

\* the ready connections after position i, which the break leaves unread
Skipped(cl, rd, i) == {cl[j] : j \in {k \in (i + 1)..Len(cl) : cl[k] \in rd.clients}}

\* the fan-out loop of handle_pipein: the first position whose send() raises
FailIdx(cl, au) ==
    LET B == {j \in 1..Len(cl) : au[j] /\ net[cl[j]] = "rst"}
    IN  IF B = {} THEN 0 ELSE Min(B)

\* faulty variant: the flag is not looked at, every session is sent the data
FanOut_All(cl, au, snt, d) ==
    [c \in Conns |-> IF c \in Range(cl) THEN Append(snt[c], d) ELSE snt[c]]

\* the fan-out loop of handle_pipein: the send() calls it makes
FanOut(cl, au, snt, d) ==
    LET f == FailIdx(cl, au)
    IN  [c \in Conns |->
            IF \E j \in 1..Len(cl) : cl[j] = c /\ au[j] /\ (f = 0 \/ j <= f)
            THEN Append(snt[c], d) ELSE snt[c]]

\* ------------------------------------------------------------------ Init
\* The relay loop at its select with k sessions accepted and authorized, each
\* by the handshake Good, and no packet read yet; k = 0 is the state after
\* construction (Hid2Tcp.__init__), the others are reached from it by k
\* connects, accepts and handshakes.
Serving(in, k) ==
    /\ inputs = [msgs |-> in.msgs, frames |-> in.frames, serving |-> k]
    /\ upc = "read"
    /\ packet = << >>
    /\ produced = << >>
    /\ pipe = << >>
    /\ eof = FALSE
    /\ pc = "select"
    /\ ready = NoneReady
    /\ idx = 0
    /\ data_size = 0
    /\ clients = SubSeq([j \in Conns |-> j], 1, k)
    /\ authorized = SubSeq([j \in Conns |-> TRUE], 1, k)
    /\ backlog = << >>
    /\ nconn = k
    /\ inbox = [c \in Conns |-> << >>]
    /\ net = [c \in Conns |-> "open"]
    /\ srvClosed = [c \in Conns |-> FALSE]
    /\ sent = [c \in Conns |-> IF c <= k THEN <<Good>> ELSE << >>]
    /\ recvLog = [c \in Conns |-> IF c <= k THEN <<Good>> ELSE << >>]
    /\ devWrites = << >>
    /\ fanned = << >>
    /\ authAt = [c \in Conns |-> IF c <= k THEN 0 ELSE -1]
    /\ skipped = {}
    /\ nenv = 0

\* The same, for a pipe whose write end is closed, the case handle_pipein's check
\* of the length read is written for: the reader has stopped, p is what the pipe
\* still holds.
Halted(in, k, p) ==
    /\ inputs = [msgs |-> in.msgs, frames |-> in.frames, serving |-> k]
    /\ upc = "stopped"
    /\ packet = << >>
    /\ produced = << >>
    /\ pipe = p
    /\ eof = TRUE
    /\ pc = "select"
    /\ ready = NoneReady
    /\ idx = 0
    /\ data_size = 0
    /\ clients = SubSeq([j \in Conns |-> j], 1, k)
    /\ authorized = SubSeq([j \in Conns |-> TRUE], 1, k)
    /\ backlog = << >>
    /\ nconn = k
    /\ inbox = [c \in Conns |-> << >>]
    /\ net = [c \in Conns |-> "open"]
    /\ srvClosed = [c \in Conns |-> FALSE]
    /\ sent = [c \in Conns |-> IF c <= k THEN <<Good>> ELSE << >>]
    /\ recvLog = [c \in Conns |-> IF c <= k THEN <<Good>> ELSE << >>]
    /\ devWrites = << >>
    /\ fanned = << >>
    /\ authAt = [c \in Conns |-> IF c <= k THEN 0 ELSE -1]
    /\ skipped = {}
    /\ nenv = 0

Init == \E k \in 0..MaxConns : Serving(SessionInputs, k)

InitChannel == \E k \in 0..MaxConns : Serving(ChannelInputs, k)

InitFair == \E k \in 0..MaxConns : Serving(FairInputs, k)

\* the running bridge, and the bridge on a closed pipe that holds nothing, a
\* length byte alone, a record cut short, or a whole record
InitFraming ==
    \E k \in 0..MaxConns :
        \/ Serving(SessionInputs, k)
        \/ \E p \in FramingPipes : Halted(SessionInputs, k, p)

\* ------------------------------------------- UsbInterface.run (the reader)
\* endpoint_in.read raises: a USBError (a timeout, usually) or another exception
UsbReadFault ==
    /\ upc = "read"
    /\ upc' = "retry"
    /\ UNCHANGED <<inputs, eof, packet, produced, pipe, relayVars, sessionVars, netVars, logVars>>

\* the continue of the except clause
UsbRetry ==
    /\ upc = "retry"
    /\ upc' = AfterReadFault
    /\ UNCHANGED <<inputs, eof, packet, produced, pipe, relayVars, sessionVars, netVars, logVars>>

UsbRead ==
    /\ upc = "read"
    /\ Len(produced) < MaxFrames
    /\ \E f \in inputs.frames :
        /\ packet' = f
        /\ produced' = Append(produced, f)
    /\ upc' = "wlen"
    /\ UNCHANGED <<inputs, eof, pipe, relayVars, sessionVars, netVars, logVars>>

UsbWriteLen ==
    /\ upc = "wlen"
    /\ pipe' = Append(pipe, LengthByte(packet))
    /\ upc' = "wdata"
    /\ UNCHANGED <<inputs, eof, packet, produced, relayVars, sessionVars, netVars, logVars>>

UsbWriteData ==
    /\ upc = "wdata"
    /\ pipe' = pipe \o packet
    /\ upc' = "read"
    /\ UNCHANGED <<inputs, eof, packet, produced, relayVars, sessionVars, netVars, logVars>>

\* ------------------------------------------------ Hid2Tcp.run (the relay)
Select ==
    /\ pc = "select"
    /\ ReadyNow # NoneReady
    /\ LET rd == ReadyNow
           cp == ClientPhase(clients, rd, 1)
       IN  IF rd.server THEN pc' = "accept" /\ idx' = 0 /\ ready' = rd
           ELSE IF rd.pipein THEN pc' = "pipein" /\ idx' = 0 /\ ready' = rd
           ELSE pc' = cp.pc /\ idx' = cp.idx /\ ready' = cp.ready
    /\ UNCHANGED <<inputs, eof, readerVars, pipe, data_size, sessionVars, netVars, logVars>>

\* select returns three empty lists: the iteration does nothing
SelectTimeout ==
    /\ pc = "select"
    /\ ReadyNow = NoneReady
    /\ UNCHANGED vars

Accept ==
    /\ pc = "accept"
    /\ backlog # << >>
    /\ LET c == Head(backlog)
           cp == ClientPhase(clients, ready, 1)
       IN  /\ backlog' = Tail(backlog)
           /\ clients' = NewSession(clients, authorized, c).clients
           /\ authorized' = NewSession(clients, authorized, c).authorized
           /\ IF ready.pipein THEN pc' = "pipein" /\ idx' = 0 /\ ready' = ready
              ELSE pc' = cp.pc /\ idx' = cp.idx /\ ready' = cp.ready
    /\ UNCHANGED <<inputs, eof, readerVars, pipe, data_size, nconn, inbox, net, srvClosed, nenv, logVars>>

\* handle_pipein, os.read(self.pipein, 1)
HandlePipeinSize ==
    /\ pc = "pipein"
    /\ CanRead(pipe, 1, eof)
    /\ IF pipe = << >>
       THEN \* len(data_size) != 1: raise Exception("Illegal size info received")
            /\ pc' = "size raised" /\ idx' = 0 /\ ready' = NoneReady
            /\ UNCHANGED <<pipe, data_size>>
       ELSE /\ data_size' = Head(pipe)
            /\ pipe' = Consume(pipe, 1)
            /\ pc' = "pipein_data"
            /\ UNCHANGED <<ready, idx>>
    /\ UNCHANGED <<inputs, eof, readerVars, sessionVars, netVars, logVars>>

\* handle_pipein, os.read(self.pipein, data_size) and the fan-out
HandlePipeinData ==
    /\ pc = "pipein_data"
    /\ CanRead(pipe, data_size, eof)
    /\ LET n == IF data_size <= Len(pipe) THEN data_size ELSE Len(pipe)
           data == Take(pipe, n)
           nx == IF FailIdx(clients, authorized) = 0
                 THEN ClientPhase(clients, ready, 1)
                 ELSE Raised("send raised")
       IN  /\ pipe' = Consume(pipe, n)
           /\ fanned' = Append(fanned, data)
           /\ sent' = FanOut(clients, authorized, sent, data)
           /\ pc' = nx.pc /\ idx' = nx.idx /\ ready' = nx.ready
    /\ data_size' = 0
    /\ UNCHANGED <<inputs, eof, readerVars, sessionVars, netVars, recvLog, devWrites, authAt, skipped>>

\* handle_client(i) and, when it returns False, the del and break of run()
HandleClient ==
    /\ pc = "clients"
    /\ LET c == clients[idx]
           cont == ClientPhase(clients, ready, idx + 1)
           gone == RemoveSession(clients, authorized, idx)
       IN  IF inbox[c] = << >>
           THEN \* recv() has no data to return
                /\ net[c] # "open"
                /\ IF net[c] = "rst"
                   THEN \* recv() raises ConnectionResetError: nothing catches it
                        /\ pc' = "recv raised" /\ idx' = 0 /\ ready' = NoneReady
                        /\ UNCHANGED <<sessionVars, skipped>>
                   ELSE \* recv() returns b'': the client left
                        LET nx == AfterRemove(gone.clients, ready, idx)
                        IN  /\ clients' = gone.clients
                            /\ authorized' = gone.authorized
                            /\ skipped' = Skipped(clients, ready, idx)
                            /\ pc' = nx.pc /\ idx' = nx.idx /\ ready' = nx.ready
                /\ UNCHANGED <<inbox, srvClosed, sent, recvLog, devWrites, authAt>>
           ELSE LET data == Head(inbox[c])
                IN  /\ inbox' = [inbox EXCEPT ![c] = Tail(@)]
                    /\ recvLog' = [recvLog EXCEPT ![c] = Append(@, data)]
                    /\ IF authorized[idx]
                       THEN \* hid data
                            \E ok \in BOOLEAN :
                                LET nx == AfterUsbSend(ok, cont)
                                IN  /\ devWrites' = UsbSend(devWrites, c, data, ok)
                                    /\ pc' = nx.pc /\ idx' = nx.idx /\ ready' = nx.ready
                                    /\ UNCHANGED <<sessionVars, srvClosed, sent, authAt, skipped>>
                       ELSE IF HandshakeOk(data)
                       THEN \* authorization successful: set the flag, then echo
                            LET nx == IF net[c] = "rst" THEN Raised("send raised") ELSE cont
                            IN  /\ authorized' = [authorized EXCEPT ![idx] = TRUE]
                                /\ sent' = [sent EXCEPT ![c] = Append(@, data)]
                                /\ authAt' = [authAt EXCEPT ![c] = Len(fanned)]
                                /\ pc' = nx.pc /\ idx' = nx.idx /\ ready' = nx.ready
                                /\ UNCHANGED <<clients, srvClosed, devWrites, skipped>>
                       ELSE \* authorization failed: close, return False
                            LET nx == AfterRemove(gone.clients, ready, idx)
                            IN  /\ srvClosed' = [srvClosed EXCEPT ![c] = TRUE]
                                /\ clients' = gone.clients
                                /\ authorized' = gone.authorized
                                /\ skipped' = Skipped(clients, ready, idx)
                                /\ pc' = nx.pc /\ idx' = nx.idx /\ ready' = nx.ready
                                /\ UNCHANGED <<sent, devWrites, authAt>>
    /\ UNCHANGED <<inputs, eof, readerVars, pipe, data_size, backlog, nconn, net, nenv, fanned>>

\* ------------------------------------------------- the TCP clients (environment)
\* a client acts on a connection the server has accepted and still serves
Live(c) == Running /\ c \in Range(clients)

Connect ==
    /\ Running
    /\ nconn < MaxConns
    /\ nenv < MaxEnv
    /\ nenv' = nenv + 1
    /\ nconn' = nconn + 1
    /\ backlog' = Append(backlog, nconn + 1)
    /\ UNCHANGED <<inputs, eof, readerVars, pipe, relayVars, sessionVars, inbox, net, srvClosed, logVars>>

ClientSend ==
    \E c \in Conns, m \in inputs.msgs :
        /\ Live(c)
        /\ net[c] = "open"
        /\ nenv < MaxEnv
        /\ nenv' = nenv + 1
        /\ inbox' = [inbox EXCEPT ![c] = Append(@, m)]
        /\ UNCHANGED <<inputs, eof, readerVars, pipe, relayVars, sessionVars, backlog, nconn, net, srvClosed, logVars>>

ClientClose ==
    \E c \in Conns :
        /\ Live(c)
        /\ net[c] = "open"
        /\ nenv < MaxEnv
        /\ nenv' = nenv + 1
        /\ net' = [net EXCEPT ![c] = "fin"]
        /\ UNCHANGED <<inputs, eof, readerVars, pipe, relayVars, sessionVars, backlog, nconn, inbox, srvClosed, logVars>>

ClientReset ==
    \E c \in Conns :
        /\ Live(c)
        /\ net[c] # "rst"
        /\ nenv < MaxEnv
        /\ nenv' = nenv + 1
        /\ net' = [net EXCEPT ![c] = "rst"]
        /\ UNCHANGED <<inputs, eof, readerVars, pipe, relayVars, sessionVars, backlog, nconn, inbox, srvClosed, logVars>>

\* ------------------------------------------------------------------ Spec
Next ==
    \/ UsbReadFault
    \/ UsbRetry
    \/ UsbRead
    \/ UsbWriteLen
    \/ UsbWriteData
    \/ Select
    \/ SelectTimeout
    \/ Accept
    \/ HandlePipeinSize
    \/ HandlePipeinData
    \/ HandleClient
    \/ Connect
    \/ ClientSend
    \/ ClientClose
    \/ ClientReset

Spec == Init /\ [][Next]_vars

SpecChannel == InitChannel /\ [][Next]_vars

SpecFraming == InitFraming /\ [][Next]_vars

\* the relay loop is a running thread: a step of it that stays possible is taken
RelayStep == Select \/ Accept \/ HandlePipeinSize \/ HandlePipeinData \/ HandleClient

\* so is the reader, once endpoint_in.read has returned or raised
ReaderStep == UsbRetry \/ UsbWriteLen \/ UsbWriteData

SpecFair == InitFair /\ [][Next]_vars /\ WF_vars(RelayStep) /\ WF_vars(ReaderStep)

\* ---------------------------------------------------------------- claims
\* the accepted sessions that are authorized
AuthSet == {clients[j] : j \in {i \in 1..Len(clients) : authorized[i]}}

\* a handle_client step that read a message from connection c
ReadsFrom(c) == pc = "clients" /\ clients[idx] = c /\ recvLog' # recvLog

\* C1: a non-empty message read from an unauthorized session authorizes it iff
\* it is 4 bytes whose big-endian halves are the configured vendor and product
\* id; then exactly those bytes are sent back to it; otherwise the connection is
\* closed, nothing is sent to it and the session leaves the active set.
C1_HandshakeCorrect ==
    [][\A c \in Conns :
        (ReadsFrom(c) /\ ~authorized[idx]) =>
            LET d == Head(inbox[c])
            IN  IF Len(d) = 4 /\ d[1] * 256 + d[2] = VendorId /\ d[3] * 256 + d[4] = ProductId
                THEN /\ c \in AuthSet'
                     /\ sent'[c] = Append(sent[c], d)
                     /\ ~srvClosed'[c]
                ELSE /\ c \notin Range(clients')
                     /\ srvClosed'[c]
                     /\ sent'[c] = sent[c]]_vars

\* a connection opened in this run has completed the handshake and got its echo
C1_Witness ==
    \E c \in Conns :
        /\ c > inputs.serving
        /\ recvLog[c] = <<Good>>
        /\ c \in AuthSet
        /\ sent[c] = <<Good>>

\* the configured identity, as the handshake carries it
ValidHandshake(d) ==
    Len(d) = 4 /\ d[1] * 256 + d[2] = VendorId /\ d[3] * 256 + d[4] = ProductId

\* C2: every device write carries a message read from a session whose flag
\* was true when it was read, and that session had completed a valid handshake;
\* the handshake bytes themselves and failed handshakes are never written.
C2_UnauthorizedIsolation ==
    [][devWrites' # devWrites =>
        /\ pc = "clients"
        /\ authorized[idx]
        /\ LET c == clients[idx]
           IN  /\ recvLog[c] # << >>
               /\ ValidHandshake(recvLog[c][1])
               /\ Len(devWrites') = Len(devWrites) + 1
               /\ SubSeq(devWrites', 1, Len(devWrites)) = devWrites
               /\ devWrites'[Len(devWrites')].conn = c
               /\ devWrites'[Len(devWrites')].data = Head(inbox[c])]_vars

\* a message of an authorized session has been written to the device, and
\* another session has sent a message that failed the handshake
C2_Witness ==
    /\ devWrites # << >>
    /\ \E c \in Conns : recvLog[c] # << >> /\ ~ValidHandshake(recvLog[c][1])

\* C4: a session's flag, once true, stays true while the session is in the
\* active set, whatever it sends and whatever is accepted or removed around it;
\* it turns true only in the step that reads that session's valid handshake,
\* and a removed session never comes back.
C4_NoReauthorization ==
    [][\A c \in Conns :
        /\ (c \in AuthSet /\ c \in Range(clients')) => c \in AuthSet'
        /\ (c \notin AuthSet /\ c \in AuthSet') =>
              (ReadsFrom(c) /\ recvLog[c] = << >> /\ ValidHandshake(Head(inbox[c])))
        /\ (c \in Range(clients) /\ c \notin Range(clients')) =>
              (pc = "clients" /\ clients[idx] = c)
        /\ (c \notin Range(clients) /\ c \in Range(clients')) =>
              (pc = "accept" /\ c = Head(backlog) /\ c \notin AuthSet' /\ recvLog[c] = << >>)]_vars

\* an authorized session has moved to the front after the removal of the entry
\* before it, has sent a failed-handshake message since, and is still authorized
C4_Witness ==
    /\ Len(clients) = 1
    /\ clients[1] = 2
    /\ authorized[1]
    /\ Len(recvLog[2]) >= 2
    /\ recvLog[2][2] = Zero4

\* the writes made for connection c, in order
RECURSIVE WritesOf(_, _)
WritesOf(w, c) ==
    IF w = << >> THEN << >>
    ELSE IF Head(w).conn = c THEN <<Head(w).data>> \o WritesOf(Tail(w), c)
    ELSE WritesOf(Tail(w), c)

RECURSIVE Forwarded(_)
Forwarded(n) ==
    IF n = 0 THEN 0
    ELSE (IF recvLog[n] = << >> THEN 0 ELSE Len(recvLog[n]) - 1) + Forwarded(n - 1)

\* C5: the device is written only by handle_client, one call per message: the
\* writes made for a session are exactly the messages read from it after its
\* handshake, each whole and unchanged and in order, and there are no others.
C5_SingleWriter ==
    /\ \A c \in Conns :
          WritesOf(devWrites, c) =
             (IF recvLog[c] # << >> /\ ValidHandshake(recvLog[c][1])
              THEN Tail(recvLog[c]) ELSE << >>)
    /\ Len(devWrites) <= Forwarded(MaxConns)

\* two authorized sessions were ready in one iteration: the first one's message
\* has been written, the loop stands at the second, whose message is pending
C5_Witness ==
    /\ pc = "clients"
    /\ idx = 2
    /\ authorized[1] /\ authorized[2]
    /\ clients[1] \in ready.clients /\ clients[2] \in ready.clients
    /\ net[clients[1]] = "open" /\ inbox[clients[1]] = << >>
    /\ inbox[clients[2]] # << >>
    /\ devWrites # << >>
    /\ devWrites[Len(devWrites)].conn = clients[1]

\* C9: a failed device read (timeout or error) and a failed device write end
\* neither thread, remove or de-authorize no session and put nothing into the
\* pipe; the reader goes back to reading and the loop goes on.
C9_DeviceErrorContained ==
    [][/\ upc \in {"read", "retry", "wlen", "wdata"}
       /\ (upc = "read" /\ upc' = "retry") =>
             (pipe' = pipe /\ clients' = clients /\ authorized' = authorized /\ pc' = pc)
       /\ (upc = "retry" /\ upc' # "retry") =>
             (upc' = "read" /\ pipe' = pipe /\ clients' = clients /\ authorized' = authorized
              /\ pc' = pc)
       /\ (devWrites' # devWrites /\ ~devWrites'[Len(devWrites')].ok) =>
             (pipe' = pipe /\ clients' = clients /\ authorized' = authorized
              /\ upc' = upc /\ pc' \in {"select", "clients"})]_vars

\* the reader is in its except clause, and a failed device write was followed by
\* a successful one from a session that is still authorized
C9_Witness ==
    /\ upc = "retry"
    /\ Running
    /\ \E n \in 1..(Len(devWrites) - 1) :
          /\ ~devWrites[n].ok
          /\ devWrites[n + 1].ok
          /\ devWrites[n].conn \in AuthSet

\* the byte stream of a sequence of frames: per frame one length byte, then the payload
RECURSIVE Records(_)
Records(fs) ==
    IF fs = << >> THEN << >>
    ELSE <<Len(Head(fs))>> \o Head(fs) \o Records(Tail(fs))

\* the bytes the reader has written to the pipe so far
Written ==
    IF upc = "wlen" THEN Records(SubSeq(produced, 1, Len(produced) - 1))
    ELSE IF upc = "wdata"
    THEN Records(SubSeq(produced, 1, Len(produced) - 1)) \o <<Len(produced[Len(produced)])>>
    ELSE Records(produced)

\* the bytes handle_pipein has taken from the pipe so far
Consumed ==
    Records(fanned) \o (IF pc = "pipein_data" THEN <<data_size>> ELSE << >>)

\* C10: every frame of 0..255 bytes comes out of the pipe as it went in: the
\* payloads handle_pipein reads are the device's frames, in order and byte for
\* byte, and every read starts at a record's length byte (what was consumed, and
\* then what is left in the pipe, is the reader's record stream).
C10_ChannelRoundTrip ==
    /\ Len(fanned) <= Len(produced)
    /\ \A i \in 1..Len(fanned) : fanned[i] = produced[i]
    /\ Written = Consumed \o pipe
    /\ pc = "pipein_data" => data_size = Len(produced[Len(fanned) + 1])

\* a 255-byte frame and then an empty frame have crossed the pipe and were sent
\* to a session
C10_Witness ==
    /\ fanned = <<Frame255, Frame0>>
    /\ sent[1] = <<Good, Frame255, Frame0>>
    /\ pipe = << >>

\* C3 as claimed: every session that is authorized has been sent every frame
\* read from the pipe since its authorization, each once and in order.
C3_FanOutComplete ==
    \A c \in AuthSet : Tail(sent[c]) = SubSeq(fanned, authAt[c] + 1, Len(fanned))

\* C6 as claimed: a fan-out sends nothing to a session whose peer has closed the
\* connection, nor to a session that has been removed.
C6_NoSendAfterClose ==
    [][\A c \in Conns :
        (fanned' # fanned /\ (net[c] = "fin" \/ (c <= nconn /\ c \notin Range(clients) /\ c \notin Range(backlog))))
            => sent'[c] = sent[c]]_vars

\* C7 as claimed: a failed read from or write to one client's connection does
\* not end the relay loop, and the other authorized sessions are still sent
\* every frame.
C7_ClientErrorContained ==
    /\ pc \notin {"recv raised", "send raised"}
    /\ \A c \in AuthSet :
          net[c] # "rst" => Tail(sent[c]) = SubSeq(fanned, authAt[c] + 1, Len(fanned))

\* C8 as claimed: when recv on a ready connection fails, the connection is
\* closed, its session removed and the loop continues.
C8_ReadErrorDestroysSession ==
    [][\A c \in Conns :
        (pc = "clients" /\ pc' # pc /\ clients[idx] = c /\ inbox[c] = << >> /\ net[c] = "rst")
            => (c \notin Range(clients') /\ srvClosed'[c] /\ pc' = "select")]_vars

\* a handle_client step that read from an authorized session: one write of the
\* message to the device, nothing sent, no session changed
ForwardsToDevice ==
    \A c \in Conns :
        (ReadsFrom(c) /\ authorized[idx]) =>
            /\ Len(devWrites') = Len(devWrites) + 1
            /\ SubSeq(devWrites', 1, Len(devWrites)) = devWrites
            /\ devWrites'[Len(devWrites')].data = Head(inbox[c])
            /\ sent' = sent
            /\ clients' = clients
            /\ authorized' = authorized
            /\ srvClosed' = srvClosed

\* a handle_pipein step that read a payload: one send of it to every session
\* authorized then, none to the others
ForwardsToClients ==
    fanned' # fanned =>
        \A c \in Conns :
            sent'[c] = IF c \in AuthSet THEN Append(sent[c], fanned'[Len(fanned')]) ELSE sent[c]

\* C11 as claimed: every message read from an authorized session is written to
\* the device once and unchanged, with nothing sent back and no session changed;
\* every frame read from the pipe is sent once and unchanged to each session
\* authorized at that moment and to no other.
C11_PostHandshakeForwarding == [][ForwardsToDevice /\ ForwardsToClients]_vars

\* C12: whatever the interleaving of the reader's two writes with the loop's
\* select and reads, the payload the loop fans out has the length the length
\* byte announced and is the device's frame; a loop that has read the length byte
\* before the payload was written waits for the payload and fans out nothing.
C12_RecordAtomicity ==
    [][/\ fanned' # fanned =>
             /\ pc = "pipein_data"
             /\ Len(fanned'[Len(fanned')]) = data_size
             /\ fanned'[Len(fanned')] = produced[Len(fanned')]
       /\ (pc = "pipein_data" /\ data_size > 0 /\ pipe = << >>) =>
             (fanned' = fanned /\ sent' = sent /\ pc' = pc /\ data_size' = data_size)]_vars

\* the loop became ready on the length byte alone: it has read the 255 of a
\* record whose payload the reader has not written yet
C12_Witness ==
    /\ pc = "pipein_data"
    /\ data_size = 255
    /\ pipe = << >>
    /\ upc = "wdata"
    /\ packet = Frame255

OneRecordPerIteration ==
    /\ (pc = "select" /\ pc' # pc) =>
          /\ pc' = "pipein" => ready'.pipein
          /\ (pipe # << >> /\ pc' # "accept") => pc' = "pipein"
    /\ (pc = "accept" /\ pc' # pc) => (ready.pipein <=> pc' = "pipein")
    /\ (pc = "pipein" /\ pc' # pc) => pc' = "pipein_data"
    /\ (pc = "pipein_data" /\ pc' # pc) =>
          (Len(fanned') = Len(fanned) + 1 /\ pc' \in {"clients", "select", "send raised"})
    /\ (pc = "clients") => pc' \notin {"accept", "pipein", "pipein_data"}
    /\ fanned' # fanned =>
          /\ pc = "pipein_data"
          /\ Len(fanned') <= Len(produced)
          /\ fanned' = SubSeq(produced, 1, Len(fanned'))

\* the reader has begun to write the i-th record to the pipe
InChannel(i) == Len(produced) > i \/ (Len(produced) = i /\ upc # "wlen")

\* C14: an iteration that finds the pipe ready consumes exactly one record;
\* the records consumed are the ones written, each once and in order; and, with
\* both threads scheduled fairly, every record written to the pipe is consumed
\* and fanned out unless the loop has ended with an error.
C14_ExactlyOnceProgress ==
    /\ [][OneRecordPerIteration]_vars
    /\ \A i \in 1..MaxFrames : InChannel(i) ~> (Len(fanned) >= i \/ ~Running)

\* two records have been consumed and sent, each once, to a session, while the
\* clients used up their events
C14_Witness ==
    /\ fanned = <<Frame3, Frame3>>
    /\ pipe = << >>
    /\ \E c \in AuthSet : sent[c] = <<Good, Frame3, Frame3>>
    /\ nenv = MaxEnv
    /\ Running

\* every flag stands at the position of its own session
FlagsAligned ==
    /\ Len(authorized) = Len(clients)
    /\ \A j \in 1..Len(clients) : authorized[j] <=> authAt[clients[j]] >= 0

\* C15: an iteration removes at most one session: the step that removes a
\* session removes that one alone, ends the iteration and reads from or sends to
\* no other session; within an iteration the ready sessions are handled by
\* ascending position, none left out before a removal, and each message is read
\* with the flag of the session it came from.
C15_OneRemovalPerIteration ==
    [][/\ Len(clients') >= Len(clients) - 1
       /\ Len(clients') < Len(clients) =>
             /\ pc = "clients"
             /\ pc' = "select"
             /\ clients' = DelAt(clients, idx)
             /\ authorized' = DelAt(authorized, idx)
             /\ \A c \in Conns \ {clients[idx]} :
                   inbox'[c] = inbox[c] /\ recvLog'[c] = recvLog[c] /\ sent'[c] = sent[c]
       /\ (pc' = "clients" /\ (pc # "clients" \/ idx' # idx)) =>
             /\ pc = "clients" => clients' = clients
             /\ idx' > idx
             /\ clients'[idx'] \in ready'.clients
             /\ \A j \in (idx + 1)..(idx' - 1) : clients'[j] \notin ready'.clients
       /\ (pc = "clients" /\ recvLog' # recvLog) =>
             \A c \in Conns \ {clients[idx]} : recvLog'[c] = recvLog[c] /\ inbox'[c] = inbox[c]
       /\ FlagsAligned /\ FlagsAligned']_vars

\* a session was removed while a session after it was ready: the iteration
\* ended there, and the other session, still in the active set, is unread
C15_Witness ==
    /\ pc = "select"
    /\ skipped # {}
    /\ \A c \in skipped : c \in Range(clients) /\ inbox[c] # << >>
    /\ Len(clients) = inputs.serving - 1

\* connection c has something for the loop: an unread message, or its close
Pending(c) == c \in Range(clients) /\ (inbox[c] # << >> \/ net[c] = "fin")

\* C16 as claimed: the sessions a removal leaves unread are ready at the next
\* select; and, with the loop scheduled fairly, every session with an unread
\* message or a closed peer gets its messages read and, if closed, is removed.
C16_NoStarvation ==
    /\ [][Len(clients') < Len(clients) =>
             \A c \in skipped' : c \in ReadyNow'.clients]_vars
    /\ \A c \in Conns :
          Pending(c) ~> (c \notin Range(clients) \/ (inbox[c] = << >> /\ net[c] # "fin"))

\* C17: an iteration whose select found the listener ready accepts one
\* connection, the oldest waiting, and appends it as the last session, not
\* authorized; nothing else about the sessions changes and nothing is sent; the
\* active set grows in no other way; and a frame fanned out later in the same
\* iteration is not sent to the new session.
C17_AcceptEffect ==
    [][/\ (pc = "select" /\ pc' # pc /\ backlog # << >>) => pc' = "accept"
       /\ (pc' = "accept" /\ pc # "accept") => (pc = "select" /\ backlog # << >>)
       /\ (pc = "accept" /\ pc' # pc) =>
             /\ backlog # << >>
             /\ clients' = Append(clients, Head(backlog))
             /\ authorized' = Append(authorized, FALSE)
             /\ backlog' = Tail(backlog)
             /\ pc' \in {"pipein", "clients", "select"}
             /\ sent' = sent /\ srvClosed' = srvClosed /\ devWrites' = devWrites
       /\ Len(clients') > Len(clients) => (pc = "accept" /\ Len(clients') = Len(clients) + 1)
       /\ (pc = "pipein_data" /\ fanned' # fanned /\ ready.server) =>
             LET c == clients[Len(clients)]
             IN  ~authorized[Len(clients)] /\ sent[c] = << >> /\ sent'[c] = << >>]_vars

\* in one iteration a connection was accepted and then a frame fanned out: the
\* first session was sent the frame, the new session, the last, was sent nothing
C17_Witness ==
    /\ pc = "clients"
    /\ ready.server /\ ready.pipein
    /\ fanned = <<Frame3>>
    /\ Len(clients) = 2
    /\ sent[clients[1]] = <<Good, Frame3>>
    /\ ~authorized[2]
    /\ sent[clients[2]] = << >>

\* C18: the step that reads a failed handshake closes and removes that session
\* and no other: the other sessions keep their order, their flags and their
\* open connections, nothing is written to the device or sent to anyone, and
\* the loop goes on to its next select.
C18_BadHandshakeLocal ==
    [][\A c \in Conns :
        (ReadsFrom(c) /\ ~authorized[idx] /\ ~ValidHandshake(Head(inbox[c]))) =>
            /\ clients' = DelAt(clients, idx)
            /\ authorized' = DelAt(authorized, idx)
            /\ \A o \in Conns \ {c} : srvClosed'[o] = srvClosed[o] /\ inbox'[o] = inbox[o]
            /\ net' = net
            /\ devWrites' = devWrites
            /\ sent' = sent
            /\ pc' = "select"]_vars

\* the second connection failed its handshake and is gone; the first session is
\* still there, authorized and open, and the loop runs
C18_Witness ==
    /\ Running
    /\ recvLog[2] # << >>
    /\ ~ValidHandshake(recvLog[2][1])
    /\ srvClosed[2]
    /\ clients = <<1>>
    /\ authorized = <<TRUE>>
    /\ ~srvClosed[1]
    /\ net[1] = "open"

\* C19 as claimed: the server has closed the connection of every session that
\* has left the active set, whether its peer closed or its handshake failed.
C19_DestroyedMeansClosed ==
    \A c \in Conns :
        (c <= nconn /\ c \notin Range(clients) /\ c \notin Range(backlog)) => srvClosed[c]

\* what a session has been sent starts with the echo of its own handshake, and
\* goes on with frames read from the pipe after its authorization only
EchoThenFrames ==
    \A c \in Conns :
        sent[c] # << >> =>
            /\ recvLog[c] # << >>
            /\ sent[c][1] = recvLog[c][1]
            /\ Len(sent[c][1]) = 4
            /\ ValidHandshake(sent[c][1])
            /\ authAt[c] >= 0
            /\ Len(sent[c]) - 1 <= Len(fanned) - authAt[c]
            /\ Tail(sent[c]) = SubSeq(fanned, authAt[c] + 1, authAt[c] + Len(sent[c]) - 1)

\* C20: the first bytes sent to a session are the 4-byte echo of its handshake;
\* no frame is sent to it before, and a frame fanned out in the iteration that
\* goes on to read its handshake is not sent to it at all.
C20_EchoPrecedesData ==
    [][/\ EchoThenFrames /\ EchoThenFrames'
       /\ \A c \in Conns :
             (ReadsFrom(c) /\ ~authorized[idx] /\ c \in AuthSet') =>
                 (sent[c] = << >> /\ sent'[c] = <<Head(inbox[c])>> /\ authAt'[c] = Len(fanned))]_vars

\* a session authorized in this run after a first frame had been fanned out was
\* sent its echo first and then the second frame only
C20_Witness ==
    \E c \in Conns :
        /\ c > inputs.serving
        /\ fanned = <<Frame3, Frame3>>
        /\ authAt[c] = 1
        /\ sent[c] = <<Good, Frame3>>

====
